---- MODULE Spec2Model ----
(***************************************************************************)
(* GeneCall: the gene-call comparison driver (CGC_main.py) with the        *)
(* comparison engine it drives, and the gene-call normalizer               *)
(* (CGC_parser.py).  The two are separate programs; each has its own       *)
(* specification over its own variables.                                   *)
(***************************************************************************)
EXTENDS Integers, Sequences, FiniteSets, TLC

VARIABLES
    \* ---- CGC_main.py
    argv,          \* sys.argv[1:], the command-line arguments after the code name
    pc,            \* position of the driver
    fileSet,       \* the file arguments kept by argument handling
    callerList,    \* one GeneCallSet per ingested file
    idx,           \* position of the running for-loop
    allCalls,      \* Comparison: the merged pool
    groups,        \* Comparison: the equivalence groups
    commonCore,    \* Comparison: the groups called by every caller
    engState,      \* Comparison: Empty / Merged / Compared / Classified / Reported
    report,        \* what PrintReport emitted
    trace,         \* the operations invoked so far, in order
    stdout,        \* messages printed by the driver
    LOG,           \* lines written to the driver's log file
    \* ---- CGC_parser.py
    pargv,         \* sys.argv[1:] of the normalizer
    ppc,           \* position of the normalizer
    config,        \* the CONFIGURABLE flags
    geneCaller,    \* lower-cased caller name
    USER_OUT_PROVIDED,
    fileError,
    handles,       \* which of INFILE, OUTFILE, USER_OUT are bound to an open file
    fileLines,     \* the lines read from INFILE
    OUTFILE,       \* lines written to the default output file
    USER_OUT,      \* lines written to the user's output file
    LOGFILE,       \* lines written to the log
    pstdout        \* messages printed by the normalizer

mainVars == <<argv, pc, fileSet, callerList, idx, allCalls, groups, commonCore,
              engState, report, trace, stdout, LOG>>
parserVars == <<pargv, ppc, config, geneCaller, USER_OUT_PROVIDED, fileError,
                handles, fileLines, OUTFILE, USER_OUT, LOGFILE, pstdout>>
vars == <<mainVars, parserVars>>

(***************************************************************************)
(* Bounds of the model.                                                    *)
(***************************************************************************)
MaxArgs == 3
MaxRecs == 2
MaxPool == 4
MaxLines == 2

\* Sequences over S of length at most n.
SeqUpTo(S, n) == UNION {[1..k -> S] : k \in 0..n}

(***************************************************************************)
(* CGC_main.py: argument handling.                                         *)
(***************************************************************************)
Keywords == {"help", "input", "usage", "detail", "info"}

\* The arguments tried in the first position, and in the later ones (which the
\* code never inspects).
FirstArgs == {"a.calls", "help", "HELP", "input", "usage", "detail", "info",
              "input/a.calls"}
RestArgs == {"b.calls"}

\* str.lower(), on the arguments the model tries.
Lower(s) ==
    CASE s = "HELP" -> "help"
      [] s = "GeneMark" -> "genemark"
      [] OTHER -> s

\* The words, among those the two programs search for, that occur in s.
Substrings(s) ==
    CASE s \in {"help", "input", "usage", "detail", "info"} -> {s}
      [] s = "input/a.calls" -> {"input"}
      [] s \in {"genemark", "glimmer", "prodigal", "rast", "phate"} -> {s}
      [] OTHER -> {}

\* re.search(kw, s): kw occurs somewhere in s.
Search(kw, s) == kw \in Substrings(s)

\* Which message the chain of searches on sys.argv[1] selects, "" when none.
KeywordMessage(a) ==
    CASE Search("help", Lower(a)) -> "HELP_STRING"
      [] Search("input", Lower(a)) -> "INPUT_STRING"
      [] Search("usage", Lower(a)) -> "USAGE_STRING"
      [] Search("detail", Lower(a)) -> "INFO_STRING"
      [] Search("info", Lower(a)) -> "INFO_STRING"
      [] OTHER -> ""

\* argCount > 1, with argCount = len(sys.argv) counting the code name.
EnoughArgs(args) == Len(args) + 1 > 1

(***************************************************************************)
(* The statements of the main pipeline, in the order the driver runs them. *)
(***************************************************************************)
\* Variants with the statements in another order, or one left out.
PipelineCompareFirst == <<"add", "sort", "new", "compare", "merge", "classify", "report">>
PipelineClassifyFirst == <<"add", "sort", "new", "merge", "classify", "compare", "report">>
PipelineNoCompare == <<"add", "sort", "new", "merge", "classify", "report">>
PipelineMergeUnsorted == <<"add", "new", "merge", "sort", "compare", "classify", "report">>
Pipeline == <<"add", "sort", "new", "merge", "compare", "classify", "report">>

StageAt(k) == IF k > Len(Pipeline) THEN "done" ELSE Pipeline[k]
FirstStage == StageAt(1)
NextStage(s) == StageAt(1 + CHOOSE k \in 1..Len(Pipeline) : Pipeline[k] = s)

(***************************************************************************)
(* Normalized gene-call files as the driver reads them.                    *)
(***************************************************************************)
Callers == {"genemark", "glimmer", "prodigal"}

Rec(c, s, l, r) == [contig |-> c, strand |-> s, leftEnd |-> l, rightEnd |-> r]

\* The data records a file may hold.
Records == {Rec("c1", "+", 10, 100), Rec("c1", "+", 10, 115),
            Rec("c1", "-", 10, 100), Rec("c1", "-", 20, 100),
            Rec("c2", "+", 10, 100)}

FileContents == [caller : Callers, recs : SeqUpTo(Records, MaxRecs)]

\* Lexical order of the contig names.
ContigRank(c) == IF c = "c1" THEN 1 ELSE 2

\* GeneCallSet.AddGeneCalls: one GeneCall per data record, in file order (the
\* comment lines and the column header carry no call).
GeneCallsOf(content) ==
    [i \in 1..Len(content.recs) |->
        [geneCaller |-> content.caller,
         geneNumber |-> i,
         contig |-> content.recs[i].contig,
         strand |-> content.recs[i].strand,
         leftEnd |-> content.recs[i].leftEnd,
         rightEnd |-> content.recs[i].rightEnd,
         length |-> content.recs[i].rightEnd - content.recs[i].leftEnd + 1]]

\* GeneCallSet.SortGeneCalls: by contig, then leftEnd, then rightEnd; stable.
Before(x, y) ==
    \/ ContigRank(x.contig) < ContigRank(y.contig)
    \/ /\ x.contig = y.contig
       /\ \/ x.leftEnd < y.leftEnd
          \/ x.leftEnd = y.leftEnd /\ x.rightEnd < y.rightEnd

RECURSIVE Insert(_, _)
Insert(x, s) ==
    IF s = <<>> THEN <<x>>
    ELSE IF Before(x, s[Len(s)]) THEN Append(Insert(x, SubSeq(s, 1, Len(s) - 1)), s[Len(s)])
    ELSE Append(s, x)

RECURSIVE SortGeneCalls(_)
SortGeneCalls(s) ==
    IF s = <<>> THEN <<>>
    ELSE Insert(s[Len(s)], SortGeneCalls(SubSeq(s, 1, Len(s) - 1)))

(***************************************************************************)
(* Comparison engine (CGC_compare.Comparison).                             *)
(***************************************************************************)
\* The strand-dependent start of a call.
Start(x) == IF x.strand = "+" THEN x.leftEnd ELSE x.rightEnd

\* The pairwise test of Compare.
Match(x, y) ==
    /\ x.geneCaller # y.geneCaller
    /\ x.contig = y.contig
    /\ x.strand = y.strand
    /\ Start(x) = Start(y)

\* The group of gs that holds call i.
GroupOf(gs, i) == CHOOSE g \in gs : i \in g

\* Union-find step: the groups of i and j become one.
Union(gs, i, j) ==
    (gs \ {GroupOf(gs, i), GroupOf(gs, j)}) \cup {GroupOf(gs, i) \cup GroupOf(gs, j)}

\* The pairs of the pool Compare joins.
MatchingPairs(pool) ==
    {p \in (1..Len(pool)) \X (1..Len(pool)) : p[1] < p[2] /\ Match(pool[p[1]], pool[p[2]])}

\* Every order in which a set of pairs can be examined.
Orders(P) == {o \in [1..Cardinality(P) -> P] : \A a, b \in 1..Cardinality(P) : o[a] = o[b] => a = b}

RECURSIVE JoinAll(_, _)
JoinAll(gs, order) ==
    IF order = <<>> THEN gs
    ELSE JoinAll(Union(gs, order[1][1], order[1][2]), Tail(order))

\* Compare: every call starts in a group of its own; matching pairs are joined.
CompareGroups(pool, order) == JoinAll({{i} : i \in 1..Len(pool)}, order)

CallersOf(pool, g) == {pool[i].geneCaller : i \in g}

\* IdentifyCommonCore: the groups whose callers are all the callers of the pool.
CommonCoreOf(pool, gs) == {g \in gs : CallersOf(pool, g) = CallersOf(pool, 1..Len(pool))}

\* PrintReport: common-core calls, partial groups, unique calls.
ReportOf(pool, gs, core) ==
    [core |-> core,
     partial |-> {g \in gs \ core : Cardinality(CallersOf(pool, g)) > 1},
     unique |-> {g \in gs \ core : Cardinality(CallersOf(pool, g)) = 1}]

NoReport == [core |-> {}, partial |-> {}, unique |-> {}]

(***************************************************************************)
(* CGC_main.py: the driver.                                                *)
(***************************************************************************)
MainInit ==
    /\ argv \in {<<>>} \cup {<<a>> \o r : a \in FirstArgs, r \in SeqUpTo(RestArgs, MaxArgs - 1)}
    /\ pc = "args"
    /\ fileSet = <<>>
    /\ callerList = <<>>
    /\ idx = 1
    /\ allCalls = <<>>
    /\ groups = {}
    /\ commonCore = {}
    /\ engState = "None"
    /\ report = NoReport
    /\ trace = <<>>
    /\ stdout = <<>>
    /\ LOG = <<>>

\* GET INPUT PARAMETERS
ParseArgs ==
    /\ pc = "args"
    /\ IF EnoughArgs(argv)
       THEN IF KeywordMessage(argv[1]) # ""
            THEN /\ stdout' = Append(stdout, KeywordMessage(argv[1]))
                 /\ pc' = "exit"
                 /\ UNCHANGED <<fileSet, LOG>>
            ELSE /\ fileSet' = argv
                 /\ pc' = FirstStage
                 /\ UNCHANGED <<stdout, LOG>>
       ELSE /\ LOG' = Append(LOG, "Incorrect number of command-line arguments provided")
            /\ stdout' = Append(stdout, "USAGE_STRING")
            /\ pc' = "exit"
            /\ UNCHANGED fileSet
    /\ UNCHANGED <<argv, callerList, idx, allCalls, groups, commonCore, engState, report, trace, parserVars>>

\* One iteration of a for-loop over n elements ends; after the last one the
\* driver goes on to the next statement.  (fileSet, and so callerList, is never
\* empty once argument handling has let the run through.)
LoopAdvance(stage, n) ==
    IF idx < n
    THEN idx' = idx + 1 /\ UNCHANGED pc
    ELSE idx' = 1 /\ pc' = NextStage(stage)

PoolSize == LET S[k \in 0..Len(callerList)] ==
                    IF k = 0 THEN 0 ELSE S[k - 1] + Len(callerList[k].geneCallList)
            IN S[Len(callerList)]

\* for geneFile in fileSet: open, AddGeneCalls, close, append.  The open may fail.
\* The files' contents are drawn so that the pooled calls number at most MaxPool.
AddStep ==
    /\ pc = "add"
    /\ \/ /\ \E content \in FileContents :
                /\ PoolSize + Len(content.recs) <= MaxPool
                /\ callerList' = Append(callerList,
                       [geneCaller |-> content.caller, geneCallList |-> GeneCallsOf(content)])
          /\ trace' = Append(trace, <<"AddGeneCalls", idx>>)
          /\ LoopAdvance("add", Len(fileSet))
          /\ UNCHANGED stdout
       \/ /\ pc' = "crash"
          /\ stdout' = Append(stdout, "Traceback: IOError")
          /\ UNCHANGED <<callerList, trace, idx>>
    /\ UNCHANGED <<argv, fileSet, allCalls, groups, commonCore, engState, report, LOG, parserVars>>

\* for caller in callerList: caller.SortGeneCalls()
SortStep ==
    /\ pc = "sort"
    /\ callerList' = [callerList EXCEPT ![idx].geneCallList = SortGeneCalls(@)]
    /\ trace' = Append(trace, <<"SortGeneCalls", idx>>)
    /\ LoopAdvance("sort", Len(callerList))
    /\ UNCHANGED <<argv, fileSet, allCalls, groups, commonCore, engState, report, stdout, LOG, parserVars>>

\* compareGCs = CGC_compare.Comparison()
NewComparison ==
    /\ pc = "new"
    /\ allCalls' = <<>>
    /\ groups' = {}
    /\ commonCore' = {}
    /\ engState' = "Empty"
    /\ trace' = Append(trace, <<"Comparison", 0>>)
    /\ pc' = NextStage("new")
    /\ UNCHANGED <<argv, fileSet, callerList, idx, report, stdout, LOG, parserVars>>

\* Variant: every iteration merges the first caller's list.
MergeStepFirstOnly ==
    /\ pc = "merge"
    /\ allCalls' = allCalls \o callerList[1].geneCallList
    /\ engState' = "Merged"
    /\ trace' = Append(trace, <<"Merge", idx>>)
    /\ LoopAdvance("merge", Len(callerList))
    /\ UNCHANGED <<argv, fileSet, callerList, groups, commonCore, report, stdout, LOG, parserVars>>

\* for caller in callerList: compareGCs.Merge(caller.geneCallList)
MergeStep ==
    /\ pc = "merge"
    /\ allCalls' = allCalls \o callerList[idx].geneCallList
    /\ engState' = "Merged"
    /\ trace' = Append(trace, <<"Merge", idx>>)
    /\ LoopAdvance("merge", Len(callerList))
    /\ UNCHANGED <<argv, fileSet, callerList, groups, commonCore, report, stdout, LOG, parserVars>>

\* compareGCs.Compare()
CompareStep ==
    /\ pc = "compare"
    /\ \E order \in Orders(MatchingPairs(allCalls)) :
          groups' = CompareGroups(allCalls, order)
    /\ engState' = "Compared"
    /\ trace' = Append(trace, <<"Compare", 0>>)
    /\ pc' = NextStage("compare")
    /\ UNCHANGED <<argv, fileSet, callerList, idx, allCalls, commonCore, report, stdout, LOG, parserVars>>

\* compareGCs.IdentifyCommonCore()
ClassifyStep ==
    /\ pc = "classify"
    /\ commonCore' = CommonCoreOf(allCalls, groups)
    /\ engState' = "Classified"
    /\ trace' = Append(trace, <<"IdentifyCommonCore", 0>>)
    /\ pc' = NextStage("classify")
    /\ UNCHANGED <<argv, fileSet, callerList, idx, allCalls, groups, report, stdout, LOG, parserVars>>

\* compareGCs.PrintReport()
ReportStep ==
    /\ pc = "report"
    /\ report' = ReportOf(allCalls, groups, commonCore)
    /\ engState' = "Reported"
    /\ trace' = Append(trace, <<"PrintReport", 0>>)
    /\ pc' = NextStage("report")
    /\ UNCHANGED <<argv, fileSet, callerList, idx, allCalls, groups, commonCore, stdout, LOG, parserVars>>

MainNext ==
    \/ ParseArgs
    \/ AddStep
    \/ SortStep
    \/ NewComparison
    \/ MergeStep
    \/ CompareStep
    \/ ClassifyStep
    \/ ReportStep

(***************************************************************************)
(* CGC_parser.py: the normalizer.                                          *)
(***************************************************************************)
\* The CONFIGURABLE flags, as shipped.
ShippedConfig == [GLIMMER3 |-> TRUE, PRODIGAL_sco |-> TRUE, RAST_GFF3 |-> TRUE]

ACCEPTABLE_ARG_COUNT == {2, 3, 4}

\* First arguments of the normalizer: caller names and keywords.
CallerArgs == {"genemark", "GeneMark", "glimmer", "prodigal", "rast", "phate",
               "augustus", "help", "input", "usage"}
\* What follows: the gene-call file, the user's output file, one argument too many.
TailArgs == <<"calls.in", "user.out", "extra">>

\* The message the keyword searches on sys.argv[1] select, "" when none.
ParserKeywordMessage(a) ==
    CASE Search("help", Lower(a)) -> "HELP_STRING"
      [] Search("input", Lower(a)) -> "INPUT_STRING"
      [] Search("usage", Lower(a)) -> "USAGE_STRING"
      [] OTHER -> ""

\* Which Process function the caller name is dispatched to.
Dispatch(name) ==
    CASE Search("genemark", name) -> "genemark"
      [] Search("glimmer", name) -> "glimmer"
      [] Search("prodigal", name) -> "prodigal"
      [] Search("rast", name) -> "rast"
      [] Search("phate", name) -> "phate"
      [] OTHER -> "unknown"

\* Text of a number written with %s, and the empty text of ''.
Num(n) == <<n>>
NoText == <<>>
IsNum(t) == Len(t) = 1
Val(t) == t[1]

\* Positions an input line may carry.
Coords == {10, 100}
\* Values the length column of a GeneMark line may carry.
LenColumn == {1, 91}

\* An input line, by what the patterns of the Process function in use make of
\* it: a comment (^#), a contig line, a data line with its captured groups, or
\* a line that matches none of them.
Line(k, n, s, a, b, l, m, c) ==
    [kind |-> k, geneNo |-> n, strand |-> s, a |-> a, b |-> b, len |-> l, mark |-> m, contig |-> c]

PlainLines == {Line("comment", 0, "", 0, 0, 0, "", ""), Line("other", 0, "", 0, 0, 0, "", "")}

LinesFor(fmt, cfg) ==
    CASE fmt = "genemark" ->
            PlainLines \cup {Line("contig", 0, "", 0, 0, 0, "", "c1")}
            \cup {Line("data", 1, s, a, b, l, m, "") :
                    s \in {"+", "-"}, a \in Coords, b \in Coords,
                    l \in LenColumn, m \in {"", "<"}}
      [] fmt = "glimmer" ->
            PlainLines \cup {Line("contig", 0, "", 0, 0, 0, "", "c1")}
            \cup {Line("data", 1, s, a, b, 0, "", "") :
                    s \in {"+", "-"}, a \in Coords, b \in Coords}
      [] fmt = "rast" \/ (fmt = "prodigal" /\ ~cfg.PRODIGAL_sco) ->
            PlainLines
            \cup {Line("data", 0, s, a, b, 0, "", "c1") :
                    s \in {"+", "-"}, a \in Coords, b \in Coords}
      [] fmt = "prodigal" ->
            PlainLines
            \cup {Line("data", n, s, a, b, 0, "", "") :
                    n \in {1, 2}, s \in {"+", "-"}, a \in Coords, b \in Coords}
      [] fmt = "phate" ->
            PlainLines
            \cup {Line("data", 0, s, a, b, 0, "", "") :
                    s \in {"+", "-"}, a \in Coords, b \in Coords}
      [] OTHER -> PlainLines

\* Lines of the output files.
CallerLine(name, file) == [kind |-> "caller", geneCaller |-> name, file |-> file]
HeaderLine == [kind |-> "header"]
EndLine == [kind |-> "end"]

\* The local variables of a Process function, with what it has written so far to
\* OUT and to USER_OUT; failed: it ended in an exception.
Locals(contig0) ==
    [geneNo |-> 0, contig |-> contig0, strand |-> "", leftEnd |-> NoText,
     rightEnd |-> NoText, length |-> 0, count |-> 0,
     out |-> <<>>, uout |-> <<>>, returned |-> FALSE, failed |-> FALSE]

DataRecord(st) ==
    [kind |-> "data", geneNo |-> st.geneNo, strand |-> st.strand, leftEnd |-> st.leftEnd,
     rightEnd |-> st.rightEnd, length |-> st.length, contig |-> st.contig]

\* Variant: the record goes to OUT only.
WriteRecordOutOnly(st, user) == [st EXCEPT !.out = Append(@, DataRecord(st))]

\* OUT.write(record); if USER_OUT_PROVIDED: USER_OUT.write(record)
WriteRecord(st, user) ==
    [st EXCEPT !.out = Append(@, DataRecord(st)),
               !.uout = IF user THEN Append(@, DataRecord(st)) ELSE @]

\* The unknown-strand branch: OUT.write("%s\n" (...)) calls a string, a TypeError.
StrandError(st) == [st EXCEPT !.failed = TRUE]

\* One iteration of the loop of ProcessGenemark.
GenemarkLine(st, line, cfg, user) ==
    CASE line.kind = "comment" -> st
      [] line.kind = "contig" -> [st EXCEPT !.contig = line.contig]
      [] line.kind = "data" ->
            \* a leading '<' or '>' (line.mark) is cut off leftEnd; the length is
            \* the file's length column
            LET read == [st EXCEPT !.geneNo = line.geneNo, !.strand = line.strand,
                                   !.leftEnd = Num(line.a), !.rightEnd = Num(line.b),
                                   !.length = line.len]
            IN IF read.strand # "+" /\ read.strand # "-"
               THEN StrandError(read)
               ELSE WriteRecord([read EXCEPT !.contig = IF @ = "" THEN "unknown" ELSE @], user)
      [] OTHER -> st

\* One iteration of the loop of ProcessGlimmer.
GlimmerLine(st, line, cfg, user) ==
    CASE line.kind = "comment" -> st
      [] line.kind = "contig" -> [st EXCEPT !.contig = line.contig]
      [] line.kind = "data" ->
            LET read == [st EXCEPT !.geneNo = line.geneNo, !.strand = line.strand]
                left == line.a
                right == line.b
                ends == IF line.strand = "+"
                        THEN [read EXCEPT !.leftEnd = Num(left),
                                          !.rightEnd = Num(IF cfg.GLIMMER3 THEN right ELSE right + 3)]
                        ELSE [read EXCEPT !.leftEnd = Num(IF cfg.GLIMMER3 THEN right ELSE right - 3),
                                          !.rightEnd = Num(left)]
            IN IF line.strand # "+" /\ line.strand # "-"
               THEN StrandError(read)
               ELSE WriteRecord([ends EXCEPT !.length = Val(ends.rightEnd) - Val(ends.leftEnd) + 1,
                                             !.contig = IF @ = "" THEN "unknown" ELSE @], user)
      [] OTHER -> st

\* One iteration of the loop of ProcessRAST.
RASTLine(st, line, cfg, user) ==
    IF ~cfg.RAST_GFF3 THEN st
    ELSE CASE line.kind = "comment" -> st
           [] line.kind = "data" ->
                 WriteRecord([st EXCEPT !.count = @ + 1, !.geneNo = st.count + 1,
                                        !.contig = line.contig,
                                        !.leftEnd = Num(line.a), !.rightEnd = Num(line.b),
                                        !.strand = line.strand,
                                        !.length = line.b - line.a + 1], user)
           [] OTHER -> st

\* One iteration of either loop of ProcessProdigal: the write follows the
\* if/elif, so it runs for every line that is not a comment.
ProdigalLine(st, line, cfg, user) ==
    CASE line.kind = "comment" -> st
      [] line.kind = "data" /\ cfg.PRODIGAL_sco ->
            WriteRecord([st EXCEPT !.geneNo = line.geneNo,
                                   !.leftEnd = Num(line.a), !.rightEnd = Num(line.b),
                                   !.strand = line.strand,
                                   !.length = line.b - line.a + 1], user)
      [] line.kind = "data" /\ ~cfg.PRODIGAL_sco ->
            WriteRecord([st EXCEPT !.count = @ + 1, !.geneNo = st.count + 1,
                                   !.contig = line.contig,
                                   !.leftEnd = Num(line.a), !.rightEnd = Num(line.b),
                                   !.strand = line.strand,
                                   !.length = line.b - line.a + 1], user)
      [] OTHER -> WriteRecord(st, user)

Abs(n) == IF n < 0 THEN -n ELSE n

\* One iteration of the loop of ProcessPhate.
PhateLine(st, line, cfg, user) ==
    CASE line.kind = "comment" -> st
      [] line.kind = "data" ->
            LET ends == IF line.strand = "+"
                        THEN [st EXCEPT !.leftEnd = Num(line.a), !.rightEnd = Num(line.b)]
                        ELSE [st EXCEPT !.rightEnd = Num(line.a), !.leftEnd = Num(line.b)]
            IN WriteRecord([ends EXCEPT !.count = @ + 1, !.geneNo = st.count + 1,
                                        !.strand = line.strand,
                                        !.length = Abs(Val(ends.rightEnd) - Val(ends.leftEnd)) + 1], user)
      [] OTHER -> st

ProcessLine(fmt, st, line, cfg, user) ==
    CASE fmt = "genemark" -> GenemarkLine(st, line, cfg, user)
      [] fmt = "glimmer" -> GlimmerLine(st, line, cfg, user)
      [] fmt = "prodigal" -> ProdigalLine(st, line, cfg, user)
      [] fmt = "rast" -> RASTLine(st, line, cfg, user)
      [] fmt = "phate" -> PhateLine(st, line, cfg, user)
      [] OTHER -> st

\* for line in fLines: ...; an exception ends the loop.
RECURSIVE ProcessLines(_, _, _, _, _)
ProcessLines(fmt, st, lines, cfg, user) ==
    IF lines = <<>> \/ st.failed THEN st
    ELSE ProcessLines(fmt, ProcessLine(fmt, st, Head(lines), cfg, user), Tail(lines), cfg, user)

\* The initial contig of each Process function.
InitialContig(fmt) == IF fmt \in {"prodigal", "phate"} THEN "unknown" ELSE ""

Process(fmt, lines, cfg, user) == ProcessLines(fmt, Locals(InitialContig(fmt)), lines, cfg, user)

ParserInit ==
    /\ pargv \in {<<>>} \cup {<<a>> \o SubSeq(TailArgs, 1, k) : a \in CallerArgs, k \in 0..Len(TailArgs)}
    /\ ppc = "args"
    /\ config = ShippedConfig
    /\ geneCaller = ""
    /\ USER_OUT_PROVIDED = FALSE
    /\ fileError = FALSE
    /\ handles = {"LOGFILE"}
    /\ fileLines = <<>>
    /\ OUTFILE = <<>>
    /\ USER_OUT = <<>>
    /\ LOGFILE = <<>>
    /\ pstdout = <<>>

\* GET INPUT PARAMETERS
ParserArgs ==
    /\ ppc = "args"
    /\ IF Len(pargv) + 1 \in ACCEPTABLE_ARG_COUNT
       THEN IF ParserKeywordMessage(pargv[1]) # ""
            THEN /\ pstdout' = Append(pstdout, ParserKeywordMessage(pargv[1]))
                 /\ handles' = handles \ {"LOGFILE"}
                 /\ ppc' = "exit"
                 /\ UNCHANGED <<geneCaller, USER_OUT_PROVIDED, LOGFILE>>
            ELSE IF Len(pargv) + 1 = 3 \/ Len(pargv) + 1 = 4
                 THEN /\ geneCaller' = Lower(pargv[1])
                      /\ USER_OUT_PROVIDED' = (Len(pargv) + 1 = 4)
                      /\ ppc' = "open"
                      /\ UNCHANGED <<pstdout, LOGFILE, handles>>
                 ELSE /\ pstdout' = Append(pstdout, "USAGE_STRING")
                      /\ LOGFILE' = Append(LOGFILE, "Incorrect number of command-line arguments provided")
                      /\ handles' = handles \ {"LOGFILE"}
                      /\ ppc' = "exit"
                      /\ UNCHANGED <<geneCaller, USER_OUT_PROVIDED>>
       ELSE /\ pstdout' = Append(pstdout, "USAGE_STRING")
            /\ LOGFILE' = Append(LOGFILE, "Incorrect number of command-line arguments provided")
            /\ handles' = handles \ {"LOGFILE"}
            /\ ppc' = "exit"
            /\ UNCHANGED <<geneCaller, USER_OUT_PROVIDED>>
    /\ UNCHANGED <<pargv, config, fileError, fileLines, OUTFILE, USER_OUT, mainVars>>

\* Open file: INFILE, OUTFILE, then USER_OUT; each open may fail.
OpenFiles ==
    /\ ppc = "open"
    /\ \E inOk, outOk, userOk \in BOOLEAN :
          IF ~inOk \/ ~outOk
          THEN /\ fileError' = TRUE
               /\ handles' = (handles \ {"LOGFILE"})
                                \cup (IF inOk THEN {"INFILE"} ELSE {})
                                \cup (IF outOk THEN {"OUTFILE"} ELSE {})
               /\ pstdout' = pstdout \o (IF inOk THEN <<>> ELSE <<"IOError">>)
                                     \o (IF outOk THEN <<>> ELSE <<"IOError">>)
               /\ LOGFILE' = Append(LOGFILE, "ERROR: problem with input file")
               /\ ppc' = "exit"
          ELSE /\ handles' = handles \cup {"INFILE", "OUTFILE"}
                                     \cup (IF USER_OUT_PROVIDED /\ userOk THEN {"USER_OUT"} ELSE {})
               /\ fileError' = (USER_OUT_PROVIDED /\ ~userOk)
               /\ pstdout' = IF USER_OUT_PROVIDED /\ ~userOk THEN Append(pstdout, "IOError") ELSE pstdout
               /\ ppc' = "header"
               /\ UNCHANGED LOGFILE
    /\ UNCHANGED <<pargv, config, geneCaller, USER_OUT_PROVIDED, fileLines, OUTFILE, USER_OUT, mainVars>>

\* The two header lines, to OUTFILE and then, if provided, to USER_OUT; the name
\* USER_OUT is unbound when its open failed.
HeaderLines == <<CallerLine(geneCaller, pargv[2]), HeaderLine>>

WriteHeaders ==
    /\ ppc = "header"
    /\ OUTFILE' = OUTFILE \o HeaderLines
    /\ IF USER_OUT_PROVIDED
       THEN IF "USER_OUT" \in handles
            THEN USER_OUT' = USER_OUT \o HeaderLines /\ ppc' = "read" /\ UNCHANGED pstdout
            ELSE /\ ppc' = "crash"
                 /\ pstdout' = Append(pstdout, "Traceback: NameError")
                 /\ UNCHANGED USER_OUT
       ELSE ppc' = "read" /\ UNCHANGED <<USER_OUT, pstdout>>
    /\ UNCHANGED <<pargv, config, geneCaller, USER_OUT_PROVIDED, fileError, handles, fileLines, LOGFILE, mainVars>>

\* fileLines = INFILE.read().splitlines()
ReadInput ==
    /\ ppc = "read"
    /\ fileLines' \in SeqUpTo(LinesFor(Dispatch(geneCaller), config), MaxLines)
    /\ ppc' = "process"
    /\ UNCHANGED <<pargv, config, geneCaller, USER_OUT_PROVIDED, fileError, handles, OUTFILE, USER_OUT, LOGFILE, pstdout, mainVars>>

\* The dispatch on the caller name, and the Process function it selects.
ProcessFile ==
    /\ ppc = "process"
    /\ LET fmt == Dispatch(geneCaller)
           st == Process(fmt, fileLines, config, USER_OUT_PROVIDED)
       IN /\ OUTFILE' = OUTFILE \o st.out
          /\ USER_OUT' = USER_OUT \o st.uout
          /\ LOGFILE' = IF fmt = "unknown"
                        THEN Append(LOGFILE, "ERROR: Cannot process unknown gene caller output file")
                        ELSE LOGFILE
          /\ IF st.failed
             THEN ppc' = "crash" /\ pstdout' = Append(pstdout, "Traceback: TypeError")
             ELSE ppc' = "end" /\ UNCHANGED pstdout
    /\ UNCHANGED <<pargv, config, geneCaller, USER_OUT_PROVIDED, fileError, handles, fileLines, mainVars>>

\* The terminal "# END" lines.
WriteEnd ==
    /\ ppc = "end"
    /\ USER_OUT' = IF USER_OUT_PROVIDED THEN Append(USER_OUT, EndLine) ELSE USER_OUT
    /\ OUTFILE' = Append(OUTFILE, EndLine)
    /\ ppc' = "cleanup"
    /\ UNCHANGED <<pargv, config, geneCaller, USER_OUT_PROVIDED, fileError, handles, fileLines, LOGFILE, pstdout, mainVars>>

\* CLEAN UP
CleanUp ==
    /\ ppc = "cleanup"
    /\ handles' = {}
    /\ LOGFILE' = Append(LOGFILE, "Processing complete")
    /\ ppc' = "done"
    /\ UNCHANGED <<pargv, config, geneCaller, USER_OUT_PROVIDED, fileError, fileLines, OUTFILE, USER_OUT, pstdout, mainVars>>

ParserNext ==
    \/ ParserArgs
    \/ OpenFiles
    \/ WriteHeaders
    \/ ReadInput
    \/ ProcessFile
    \/ WriteEnd
    \/ CleanUp

\* The other program, not running.
ParserIdle ==
    /\ pargv = <<>>
    /\ ppc = "idle"
    /\ config = ShippedConfig
    /\ geneCaller = ""
    /\ USER_OUT_PROVIDED = FALSE
    /\ fileError = FALSE
    /\ handles = {}
    /\ fileLines = <<>>
    /\ OUTFILE = <<>>
    /\ USER_OUT = <<>>
    /\ LOGFILE = <<>>
    /\ pstdout = <<>>

MainIdle ==
    /\ argv = <<>>
    /\ pc = "idle"
    /\ fileSet = <<>>
    /\ callerList = <<>>
    /\ idx = 1
    /\ allCalls = <<>>
    /\ groups = {}
    /\ commonCore = {}
    /\ engState = "None"
    /\ report = NoReport
    /\ trace = <<>>
    /\ stdout = <<>>
    /\ LOG = <<>>

\* A run of the driver.
Init == MainInit /\ ParserIdle
Next == MainNext
Spec == Init /\ [][Next]_vars

\* A run of the normalizer.
InitParser == ParserInit /\ MainIdle
SpecParser == InitParser /\ [][ParserNext]_vars

(***************************************************************************)
(* Properties of the comparison (CGC_main.py with the comparison engine).  *)
(***************************************************************************)
Calls == 1..Len(allCalls)
SameGroup(i, j) == \E g \in groups : i \in g /\ j \in g

\* Same contig, same strand, same strand-dependent start.
SameLocus(x, y) ==
    /\ x.contig = y.contig
    /\ x.strand = y.strand
    /\ (IF x.strand = "+" THEN x.leftEnd = y.leftEnd ELSE x.rightEnd = y.rightEnd)

\* X matches Y: calls of two callers at the same locus.
Matches(i, j) ==
    allCalls[i].geneCaller # allCalls[j].geneCaller /\ SameLocus(allCalls[i], allCalls[j])

InputCallers ==
    {callerList[i].geneCaller : i \in {k \in 1..Len(callerList) : callerList[k].geneCallList # <<>>}}

C3_Partition ==
    /\ engState \in {"Classified", "Reported"} =>
          /\ Len(allCalls) = PoolSize
          /\ \A i \in Calls : Cardinality({g \in groups : i \in g}) = 1
          /\ commonCore \subseteq groups
    /\ engState = "Reported" =>
          \A i \in Calls :
              Cardinality({c \in {"core", "partial", "unique"} : i \in UNION report[c]}) = 1

\* C3 witness: a report on a full pool with a partial group beside a unique
\* call.
C3_Witness ==
    /\ engState = "Reported"
    /\ report.partial # {}
    /\ report.unique # {}
    /\ Len(allCalls) = MaxPool

Events(name, n) == [i \in 1..n |-> <<name, i>>]

\* The operations of a complete run on n file arguments.
ExpectedTrace(n) ==
    Events("AddGeneCalls", n) \o Events("SortGeneCalls", n) \o <<<<"Comparison", 0>>>>
    \o Events("Merge", n)
    \o <<<<"Compare", 0>>, <<"IdentifyCommonCore", 0>>, <<"PrintReport", 0>>>>

IsPrefix(s, t) == Len(s) <= Len(t) /\ s = SubSeq(t, 1, Len(s))

\* The state of the engine after the last operation of a trace.
EngineStateAfter(t) ==
    IF \A i \in 1..Len(t) : t[i][1] \in {"AddGeneCalls", "SortGeneCalls"} THEN "None"
    ELSE CASE t[Len(t)][1] = "Comparison" -> "Empty"
           [] t[Len(t)][1] = "Merge" -> "Merged"
           [] t[Len(t)][1] = "Compare" -> "Compared"
           [] t[Len(t)][1] = "IdentifyCommonCore" -> "Classified"
           [] OTHER -> "Reported"

\* C7 (pipeline ordering): in a run past argument handling the operations happen
\* in the order AddGeneCalls for every file, SortGeneCalls for every call set,
\* Merge once per file argument in argument order, then Compare,
\* IdentifyCommonCore, PrintReport once each; the engine is Empty, Merged,
\* Compared, Classified, Reported accordingly, and a run that completes has done
\* all of them.
C7_PipelineOrder ==
    pc \notin {"idle", "args", "exit"} =>
        /\ IsPrefix(trace, ExpectedTrace(Len(fileSet)))
        /\ engState = EngineStateAfter(trace)
        /\ Len(callerList) <= Len(fileSet)
        /\ pc = "done" => trace = ExpectedTrace(Len(fileSet)) /\ engState = "Reported"

\* C7 witness: a completed run on three file arguments, two of them the same
\* file name.
C7_Witness ==
    /\ pc = "done"
    /\ Len(fileSet) = 3
    /\ fileSet[2] = fileSet[3]
    /\ Len(trace) = 13

\* A first argument that is one of the keywords.
IsKeyword(a) == Lower(a) \in Keywords

\* C10 (usage exit), as claimed: with fewer than two file paths, or a keyword as
\* first argument, the driver ingests nothing and invokes no engine operation;
\* with two or more file paths it does not stop at argument handling.
C10_UsageExit ==
    /\ (Len(argv) < 2 \/ IsKeyword(argv[1])) =>
          pc \in {"args", "exit"} /\ callerList = <<>> /\ trace = <<>>
    /\ (Len(argv) >= 2 /\ ~IsKeyword(argv[1])) => pc # "exit"

\* C9 (I/O failure handling), as claimed: a failed open never ends either
\* program in an unhandled exception, and after a failed open of the normalizer
\* the run is over with nothing written to the output files.
C9_IOFailureHandled ==
    /\ pc # "crash"
    /\ ppc # "crash"
    /\ fileError => ppc = "exit" /\ OUTFILE = <<>> /\ USER_OUT = <<>>

(***************************************************************************)
(* Properties of the normalizer's output.                                  *)
(***************************************************************************)
DataRecords(f) == {f[i] : i \in {k \in 1..Len(f) : f[k].kind = "data"}}
Emitted == DataRecords(OUTFILE) \cup DataRecords(USER_OUT)

\* C4 (coordinate order), as claimed: every emitted record with two positions
\* has leftEnd <= rightEnd.
C4_CoordinateOrder ==
    \A r \in Emitted : IsNum(r.leftEnd) /\ IsNum(r.rightEnd) => Val(r.leftEnd) <= Val(r.rightEnd)

\* C5 (length invariant), as claimed: every emitted record with two positions
\* has length = rightEnd - leftEnd + 1.
C5_Length ==
    \A r \in Emitted :
        IsNum(r.leftEnd) /\ IsNum(r.rightEnd) => r.length = Val(r.rightEnd) - Val(r.leftEnd) + 1

\* C6 (strand invariant), as claimed: every emitted data record has strand '+'
\* or '-'.
C6_Strand == \A r \in Emitted : r.strand \in {"+", "-"}

\* The run has reached the processing of the input.
ReachedProcessing == ppc \in {"read", "process", "end", "cleanup", "done"}

\* C8 (output framing): in a run that reaches processing, OUTFILE is the caller
\* line for the lower-cased caller name and the input file, the column header,
\* data records, and, once the run is through, a single final END line; nothing
\* else is written, an unrecognized caller gets no data record, and a provided
\* user output file holds the same lines in the same order.
C8_Framing ==
    ReachedProcessing =>
        /\ Len(OUTFILE) >= 2
        /\ OUTFILE[1] = CallerLine(Lower(pargv[1]), pargv[2])
        /\ OUTFILE[2] = HeaderLine
        /\ \A i \in 3..Len(OUTFILE) :
              \/ OUTFILE[i].kind = "data"
              \/ OUTFILE[i] = EndLine /\ i = Len(OUTFILE) /\ ppc \in {"cleanup", "done"}
        /\ ppc \in {"cleanup", "done"} => OUTFILE[Len(OUTFILE)] = EndLine
        /\ Dispatch(Lower(pargv[1])) = "unknown" => DataRecords(OUTFILE) = {}
        /\ USER_OUT = IF Len(pargv) = 3 THEN OUTFILE ELSE <<>>

\* C8 witness: a finished run with a user output file and two data records
\* between the header and the END line.
C8_Witness ==
    /\ ppc = "done"
    /\ Len(pargv) = 3
    /\ Len(USER_OUT) = 5
    /\ USER_OUT[3].kind = "data" /\ USER_OUT[4].kind = "data"
    /\ USER_OUT[5] = EndLine

IsData(x) == x.kind = "data"
\* The input lines the data-line pattern of the format matches, in file order,
\* and the data records of an output file, in the order written.
DataLinesRead == SelectSeq(fileLines, IsData)
RecordsWritten(f) == SelectSeq(f, IsData)

\* C12 (one record per data line), as claimed: once the Process function of a
\* known caller format has returned, OUTFILE holds as many data records as the
\* input has lines matching the format's data-line pattern, so a comment or a
\* line matching no pattern gives no record, and the k-th record is the one of
\* the k-th data line, not a repeat of an earlier line's values.
C12_OneRecordPerDataLine ==
    ppc \in {"end", "cleanup", "done"} /\ Dispatch(geneCaller) # "unknown" =>
        /\ Len(RecordsWritten(OUTFILE)) = Len(DataLinesRead)
        /\ \A k \in 1..Len(DataLinesRead) :
              k <= Len(RecordsWritten(OUTFILE)) =>
                  RecordsWritten(OUTFILE)[k].strand = DataLinesRead[k].strand
====
